---- MODULE Spec2Model ----
(***************************************************************************)
(* Model of repacker (src/main.go): a run of main() as a straight-line     *)
(* pipeline, and Generator.generate as the field-resolution function.      *)
(***************************************************************************)
EXTENDS Integers, Sequences, FiniteSets, TLC

\* ---------------------------------------------------------------- bounds
\* Largest number of fields of the source struct and of the destination
\* struct that the type-check step may load.
MaxSrcFields == 2
MaxDstFields == 2

\* Field names.  Source field k is named SrcNames[k]; destination fields
\* take any distinct names in any order, so every pattern of name
\* coincidence between the two structs occurs (up to renaming).
SrcNames == <<"A", "B", "C">>
DstNames == {"A", "B", "C"}

\* Display names of the field types (types.Type.String()).
TypeNames == {"int", "string", "[]int"}

\* Raw struct tags in the conventional key:"value" form, as the sequence of
\* their key/value pairs.
RawTags == { <<>>, << <<"json", "k">>, <<"repack", "k">> >> }

\* ---------------------------------------------------------------- types
\* go/types: the predeclared types are the singletons types.Typ[...] of the
\* universe, shared by every type-check run; a composite type expression
\* ([]int) makes a fresh *types.Slice object at every occurrence.
IsBasic(t) == t \in {"int", "string"}

\* The types.Type value (an interface holding a pointer) of field k of the
\* struct checked on the given side.
TypeOf(side, k, t) == IF IsBasic(t) THEN <<"universe", t, 0>> ELSE <<side, t, k>>

\* types.Type.String()
TypeString(ty) == ty[2]

\* ---------------------------------------------------------------- tags
RECURSIVE LookupFrom(_, _, _)
LookupFrom(tag, key, n) ==
    IF n > Len(tag) THEN [value |-> "", found |-> FALSE]
    ELSE IF tag[n][1] = key THEN [value |-> tag[n][2], found |-> TRUE]
    ELSE LookupFrom(tag, key, n + 1)

\* reflect.StructTag(tag).Lookup(key)
Lookup(tag, key) == LookupFrom(tag, key, 1)

\* ---------------------------------------------------------------- structs
Field(n, t, g) == [name |-> n, type |-> t, tag |-> g]

Distinct(names) == \A a, b \in DOMAIN names : a # b => names[a] # names[b]

SrcStructs ==
    UNION { { [k \in 1..n |-> Field(SrcNames[k], ts[k], gs[k])] :
                ts \in [1..n -> TypeNames], gs \in [1..n -> RawTags] } :
            n \in 0..(IF MaxSrcFields < Len(SrcNames) THEN MaxSrcFields ELSE Len(SrcNames)) }

DstStructs ==
    UNION { { [k \in 1..n |-> Field(ns[k], ts[k], gs[k])] :
                ns \in { f \in [1..n -> DstNames] : Distinct(f) },
                ts \in [1..n -> TypeNames], gs \in [1..n -> RawTags] } :
            n \in 0..MaxDstFields }

\* ---------------------------------------------------------------- generate
\* Mutant of Matches: the two "found" results of Lookup are not tested, so
\* two fields without a repack tag compare equal on the empty value.
MatchesIgnoringFound(sf, df) ==
    sf.name = df.name \/ Lookup(sf.tag, "repack").value = Lookup(df.tag, "repack").value

\* The matching condition of generate: equal names, or both repack tags
\* found and equal.
Matches(sf, df) ==
    LET srcTag == Lookup(sf.tag, "repack")
        dstTag == Lookup(df.tag, "repack")
    IN  sf.name = df.name
        \/ (srcTag.found /\ dstTag.found /\ srcTag.value = dstTag.value)

\* srcField.Type() != dstField.Type() compares the two interface values:
\* the types are the same only when they are the same type object.
SameType(src, dst, i, j) ==
    TypeOf("src", i, src[i].type) = TypeOf("dst", j, dst[j].type)

\* The switch on dstField.Type().String(): only a string destination gets a
\* conversion, every other destination type is skipped.
Coercible(dstTypeString) == dstTypeString = "string"

\* Mutant of SrcExpr: the conversion is never applied.
SrcExprDirect(name, same) == [conv |-> "none", from |-> name]

\* The expression assigned to the destination field: s.<name>, wrapped in
\* fmt.Sprintf when the types differ.
SrcExpr(name, same) ==
    IF same THEN [conv |-> "none", from |-> name]
    ELSE [conv |-> "Sprintf", from |-> name]

\* One initializer line  "<field>:  <expr>,"  of the constructor.
Line(field, expr) == [field |-> field, conv |-> expr.conv, from |-> expr.from]

\* The log line "skip field (<name>) due to difference types".
SkipMsg(name) == [skip |-> name]

\* The inner loop of generate for source field i, from destination field j
\* on: the lines printed and the diagnostics logged.
RECURSIVE ScanDst(_, _, _, _)
ScanDst(src, dst, i, j) ==
    IF j > Len(dst) THEN [lines |-> <<>>, log |-> <<>>]
    ELSE IF ~Matches(src[i], dst[j]) THEN ScanDst(src, dst, i, j + 1)
    ELSE IF SameType(src, dst, i, j) \/ Coercible(TypeString(TypeOf("dst", j, dst[j].type)))
         THEN \* print the line and break
              [lines |-> << Line(dst[j].name, SrcExpr(src[i].name, SameType(src, dst, i, j))) >>,
               log   |-> <<>>]
         ELSE \* log and continue with the next destination field
              LET rest == ScanDst(src, dst, i, j + 1)
              IN  [lines |-> rest.lines, log |-> <<SkipMsg(src[i].name)>> \o rest.log]

\* The outer loop of generate, from source field i on.
RECURSIVE ScanSrc(_, _, _)
ScanSrc(src, dst, i) ==
    IF i > Len(src) THEN [lines |-> <<>>, log |-> <<>>]
    ELSE LET one  == ScanDst(src, dst, i, 1)
             rest == ScanSrc(src, dst, i + 1)
         IN  [lines |-> one.lines \o rest.lines, log |-> one.log \o rest.log]

\* Generator.generate: the initializer lines of the constructor, in the
\* order printed, and the diagnostics logged.
Generate(src, dst) == ScanSrc(src, dst, 1)

\* ---------------------------------------------------------------- main
VARIABLES
    pc,        \* the statement of main() that runs next
    err,       \* why the process terminated early ("" while it has not)
    src,       \* srcpkg.Scope().Lookup(*srcTypeName)
    dst,       \* dstpkg.Scope().Lookup(*dstTypeName)
    buf,       \* g.buf, the generated text
    log,       \* the diagnostics logged by generate
    srcCode,   \* the formatted text returned by goimport
    file       \* what this run has done to the output file <dsttype>_repack.go

vars == <<pc, err, src, dst, buf, log, srcCode, file>>

\* A types.Object found by Lookup: nil, a struct type, or anything else.
NilObj      == [kind |-> "nil", fields |-> <<>>]
OtherObj    == [kind |-> "other", fields |-> <<>>]
StructObj(fs) == [kind |-> "struct", fields |-> fs]

NoCode == [ok |-> FALSE, imports |-> {}, lines |-> <<>>]

Init ==
    /\ pc = "flags"
    /\ err = ""
    /\ src = NilObj
    /\ dst = NilObj
    /\ buf = [head |-> <<>>, lines |-> <<>>]
    /\ log = <<>>
    /\ srcCode = NoCode
    /\ file = "untouched"

\* log.Fatal / os.Exit: the process ends here.
Fail(kind) ==
    /\ pc' = "exit"
    /\ err' = kind

\* flag.Parse and the checks of the three flags and of the positional
\* arguments: Usage and os.Exit(2) when one is missing or there is more than
\* one directory.
ParseFlags ==
    /\ pc = "flags"
    /\ \E flagsSet \in BOOLEAN, nargs \in 0..2 :
          IF ~flagsSet \/ nargs > 1 THEN Fail("ConfigError") ELSE pc' = "dirs" /\ err' = err
    /\ UNCHANGED <<src, dst, buf, log, srcCode, file>>

\* isDirectory(args[0]) and isDirectory(*srcTypeDir).
CheckDirs ==
    /\ pc = "dirs"
    /\ \E dstIsDir \in BOOLEAN, srcIsDir \in BOOLEAN :
          IF ~dstIsDir \/ ~srcIsDir THEN Fail("LoadError") ELSE pc' = "parseDst" /\ err' = err
    /\ UNCHANGED <<src, dst, buf, log, srcCode, file>>

\* g.parsePackageDir(dir): ImportDir, ParseFile, "no buildable Go files".
ParseDst ==
    /\ pc = "parseDst"
    /\ \E ok \in BOOLEAN :
          IF ~ok THEN Fail("LoadError") ELSE pc' = "parseSrc" /\ err' = err
    /\ UNCHANGED <<src, dst, buf, log, srcCode, file>>

\* g.parsePackageDir(*srcTypeDir).
ParseSrc ==
    /\ pc = "parseSrc"
    /\ \E ok \in BOOLEAN :
          IF ~ok THEN Fail("LoadError") ELSE pc' = "head" /\ err' = err
    /\ UNCHANGED <<src, dst, buf, log, srcCode, file>>

\* g.generateHead: banner, package clause, import "encoding/json".
GenerateHead ==
    /\ pc = "head"
    /\ buf' = [buf EXCEPT !.head = <<"banner", "package", "import encoding/json">>]
    /\ pc' = "checkSrc"
    /\ UNCHANGED <<err, src, dst, log, srcCode, file>>

\* conf.Check of the source package and the lookup of the source type.
CheckSrc ==
    /\ pc = "checkSrc"
    /\ \/ Fail("LoadError") /\ src' = src
       \/ /\ src' \in {NilObj, OtherObj} \cup { StructObj(fs) : fs \in SrcStructs }
          /\ pc' = "checkDst"
          /\ err' = err
    /\ UNCHANGED <<dst, buf, log, srcCode, file>>

\* conf.Check of the destination package, the lookup of the destination
\* type, and the test that both objects were found.
CheckDst ==
    /\ pc = "checkDst"
    /\ \/ Fail("LoadError") /\ dst' = dst
       \/ /\ dst' \in {NilObj, OtherObj} \cup { StructObj(fs) : fs \in DstStructs }
          /\ IF src.kind = "nil" \/ dst'.kind = "nil"
             THEN Fail("LookupError")
             ELSE pc' = "generate" /\ err' = err
    /\ UNCHANGED <<src, buf, log, srcCode, file>>

\* g.generate(src, dst): the type assertions to *types.Struct panic on any
\* other kind of object.
GenerateStep ==
    /\ pc = "generate"
    /\ IF src.kind # "struct" \/ dst.kind # "struct"
       THEN Fail("panic") /\ UNCHANGED <<buf, log>>
       ELSE LET g == Generate(src.fields, dst.fields)
            IN  /\ buf' = [buf EXCEPT !.lines = g.lines]
                /\ log' = g.log
                /\ pc' = "goimport"
                /\ err' = err
    /\ UNCHANGED <<src, dst, srcCode, file>>

\* imports.Process on the buffer: gofmt plus the imports the text uses
\* (fmt when a line calls fmt.Sprintf; the unused encoding/json is dropped).
Process(b) ==
    [ok      |-> TRUE,
     imports |-> IF \E n \in DOMAIN b.lines : b.lines[n].conv = "Sprintf" THEN {"fmt"} ELSE {},
     lines   |-> b.lines]

\* Mutant of AfterGoimport: the error of goimport is not tested.
AfterGoimportUnchecked(ok) == "write"

\* Where main goes after g.goimport(): log.Fatalf on an error.
AfterGoimport(ok) == IF ok THEN "write" ELSE "exit"

\* g.goimport() and the test of its error.
Goimport ==
    /\ pc = "goimport"
    /\ \E ok \in BOOLEAN :
          /\ pc' = AfterGoimport(ok)
          /\ err' = IF ok THEN err ELSE "FormatError"
          /\ srcCode' = IF ok THEN Process(buf) ELSE srcCode
    /\ UNCHANGED <<src, dst, buf, log, file>>

\* ioutil.WriteFile(outputName, srcCode, 0644): on an error the file may
\* not have been opened at all, or may hold part of the text.
WriteFile ==
    /\ pc = "write"
    /\ \/ file' = "written" /\ pc' = "done" /\ err' = err
       \/ file' \in {file, "partial"} /\ Fail("WriteError")
    /\ UNCHANGED <<src, dst, buf, log, srcCode>>

Next ==
    \/ ParseFlags
    \/ CheckDirs
    \/ ParseDst
    \/ ParseSrc
    \/ GenerateHead
    \/ CheckSrc
    \/ CheckDst
    \/ GenerateStep
    \/ Goimport
    \/ WriteFile

Spec == Init /\ [][Next]_vars

\* ---------------------------------------------------------------- claims
S == src.fields
D == dst.fields
lines == buf.lines

\* generate has just returned on two struct types: buf and log hold its
\* whole output, and no later step of main changes them.
Generated == pc = "goimport"

DstIndex(name) == CHOOSE j \in DOMAIN D : D[j].name = name
SrcIndex(name) == CHOOSE i \in DOMAIN S : S[i].name = name

HasLine(field, conv, from) ==
    \E n \in DOMAIN lines : lines[n] = [field |-> field, conv |-> conv, from |-> from]

\* Some line assigns destination field `field` from source field `from`.
Feeds(from, field) == \E n \in DOMAIN lines : lines[n].field = field /\ lines[n].from = from

\* The repack tag of a field.
RepackFound(f) == Lookup(f.tag, "repack").found
RepackValue(f) == Lookup(f.tag, "repack").value

NameMatch(sf, df) == sf.name = df.name
TagMatch(sf, df) ==
    RepackFound(sf) /\ RepackFound(df) /\ RepackValue(sf) = RepackValue(df)

\* The two fields hold the same type object / the destination is a string.
SameObj(i, j) == TypeOf("src", i, S[i].type) = TypeOf("dst", j, D[j].type)
Accepts(i, j) == (NameMatch(S[i], D[j]) \/ TagMatch(S[i], D[j]))
                 /\ (SameObj(i, j) \/ D[j].type = "string")

\* The scan of source field i gets as far as destination field j: no
\* earlier-declared destination field took the source field.
Reaches(i, j) == \A k \in 1..(j - 1) : ~Accepts(i, k)

\* C1: the destination fields named by the initializer lines form a
\* subsequence of the destination declaration order: each destination field
\* is in at most one line and the lines are in destination order.
C1_DstSubsequence ==
    Generated =>
        \A m, n \in DOMAIN lines :
            m < n => DstIndex(lines[m].field) < DstIndex(lines[n].field)

\* C2: a line for destination field d reads the earliest-declared source
\* field that matches d by name or by tag, never a later-declared one.
C2_FirstSourceMatch ==
    Generated =>
        \A n \in DOMAIN lines : \A i \in DOMAIN S :
            (NameMatch(S[i], D[DstIndex(lines[n].field)])
                \/ TagMatch(S[i], D[DstIndex(lines[n].field)]))
            => SrcIndex(lines[n].from) <= i

\* The types of the pair are compatible: identical, or the destination is
\* a string (which takes any source type through the conversion).
Compatible(i, j) == S[i].type = D[j].type \/ D[j].type = "string"

\* C3: when two distinct destination fields both match one source field
\* (by name or by tag) with compatible types, a line is emitted for each of
\* them, both reading that source field.
C3_SourceFeedsBoth ==
    Generated =>
        \A i \in DOMAIN S : \A j1, j2 \in DOMAIN D :
            (/\ j1 # j2
             /\ NameMatch(S[i], D[j1]) \/ TagMatch(S[i], D[j1])
             /\ NameMatch(S[i], D[j2]) \/ TagMatch(S[i], D[j2])
             /\ Compatible(i, j1)
             /\ Compatible(i, j2))
            => Feeds(S[i].name, D[j1].name) /\ Feeds(S[i].name, D[j2].name)

\* C4: a destination field with a same-named source field of the identical
\* type is assigned directly from it, whatever the tags.
C4_SameNameDirect ==
    Generated =>
        \A i \in DOMAIN S : \A j \in DOMAIN D :
            (S[i].name = D[j].name /\ S[i].type = D[j].type)
            => HasLine(D[j].name, "none", S[i].name)

\* C5: a matched pair whose types differ and whose destination is not a
\* string leaves the destination field without any initializer line (it is
\* not filled from another source field either), and a skip diagnostic
\* naming the source field is logged.
C5_SkippedNeverFilled ==
    Generated =>
        \A i \in DOMAIN S : \A j \in DOMAIN D :
            ((NameMatch(S[i], D[j]) \/ TagMatch(S[i], D[j]))
                /\ S[i].type # D[j].type /\ D[j].type # "string")
            => /\ \A n \in DOMAIN lines : lines[n].field # D[j].name
               /\ \E n \in DOMAIN log : log[n] = SkipMsg(S[i].name)

\* C6: for a matched pair whose destination type is string and whose source
\* type differs, the line emitted for the pair wraps the source expression
\* in the to-string conversion: it is never a direct assignment, and it is
\* emitted whenever the scan of the source field reaches the destination.
C6_StringConversion ==
    Generated =>
        \A i \in DOMAIN S : \A j \in DOMAIN D :
            ((NameMatch(S[i], D[j]) \/ TagMatch(S[i], D[j]))
                /\ D[j].type = "string" /\ S[i].type # "string")
            => /\ ~HasLine(D[j].name, "none", S[i].name)
               /\ Reaches(i, j) => HasLine(D[j].name, "Sprintf", S[i].name)

C6_Witness ==
    /\ Generated
    /\ \E i \in DOMAIN S : \E j \in DOMAIN D :
          /\ TagMatch(S[i], D[j]) /\ ~NameMatch(S[i], D[j])
          /\ D[j].type = "string" /\ S[i].type = "[]int"
          /\ HasLine(D[j].name, "Sprintf", S[i].name)

\* C7: differently named fields match exactly when both carry a repack tag
\* with equal values: a line between differently named fields has both
\* tags, and two differently named fields of identical type with the same
\* repack value yield a direct assignment.
C7_TagMatchOnly ==
    Generated =>
        \A i \in DOMAIN S : \A j \in DOMAIN D :
            S[i].name # D[j].name
            => /\ Feeds(S[i].name, D[j].name) => TagMatch(S[i], D[j])
               /\ (TagMatch(S[i], D[j]) /\ S[i].type = D[j].type /\ Reaches(i, j))
                    => HasLine(D[j].name, "none", S[i].name)

\* C8: a destination field that no source field matches, by name or by a
\* present repack tag, is in no initializer line.
C8_UnmatchedOmitted ==
    Generated =>
        \A j \in DOMAIN D :
            (\A i \in DOMAIN S : ~NameMatch(S[i], D[j]) /\ ~TagMatch(S[i], D[j]))
            => \A n \in DOMAIN lines : lines[n].field # D[j].name

C8_Witness ==
    /\ Generated
    /\ Len(lines) > 0
    /\ \E j \in DOMAIN D : \E i \in DOMAIN S :
          /\ \A k \in DOMAIN S : ~NameMatch(S[k], D[j]) /\ ~TagMatch(S[k], D[j])
          /\ ~RepackFound(D[j]) /\ ~RepackFound(S[i])

\* C9: the output file is written only after flag checking, loading, type
\* checking, lookup, field resolution and formatting have all succeeded; a
\* run that ends in a ConfigError, LoadError, LookupError or FormatError has
\* never written it.
C9_FailClosed ==
    /\ file # "untouched" =>
          /\ pc \in {"done", "exit"}
          /\ err \in {"", "WriteError"}
          /\ src.kind = "struct" /\ dst.kind = "struct"
          /\ buf.head # <<>>
          /\ srcCode = Process(buf)
    /\ err \in {"ConfigError", "LoadError", "LookupError", "FormatError", "panic"}
          => pc = "exit" /\ file = "untouched"

C9_Witness ==
    /\ pc = "done"
    /\ file = "written"
    /\ "fmt" \in srcCode.imports

\* C10: a matched pair whose two field types have the same display name is
\* treated as identical-typed: the scan of the source field emits the
\* direct copy for it, with no conversion and no skip.
C10_DisplayNameIdentity ==
    Generated =>
        \A i \in DOMAIN S : \A j \in DOMAIN D :
            ((NameMatch(S[i], D[j]) \/ TagMatch(S[i], D[j]))
                /\ TypeString(TypeOf("src", i, S[i].type)) = TypeString(TypeOf("dst", j, D[j].type))
                /\ Reaches(i, j))
            => /\ HasLine(D[j].name, "none", S[i].name)
               /\ \A n \in DOMAIN log : log[n] # SkipMsg(S[i].name)

====
